---- MODULE Spec2Model ----
(***************************************************************************)
(* A model of crypto/curve25519/curve25519.c: the Ed25519 engine           *)
(* (ED25519_keypair_from_seed, ED25519_keypair, ED25519_sign,              *)
(* ED25519_verify) and the X25519 engine with its s2n-bignum dispatch      *)
(* (X25519, X25519_public_from_private, X25519_keypair).                   *)
(*                                                                         *)
(* Buffers are sequences of bytes (0..255), index 1 is C index 0.          *)
(* Multi-byte integers are little-endian byte sequences; no value wider    *)
(* than a byte product is ever held in one integer.                        *)
(*                                                                         *)
(* The field/group arithmetic, SHA-512 and the s2n-bignum / nohw scalar    *)
(* multiplications are not part of curve25519.c.  They are modelled as the *)
(* cyclic group of prime order L written additively (a point is its        *)
(* discrete logarithm to the base point, 0 <= k < L), with a point         *)
(* encoding that is the 32-byte little-endian form of k, and a small       *)
(* deterministic digest in place of SHA-512.                               *)
(***************************************************************************)
EXTENDS Integers, Sequences, FiniteSets, TLC

(***************************************************************************)
(* Bytes and bit operations of C on uint8_t.                               *)
(***************************************************************************)
Byte == 0..255

RECURSIVE BitAnd(_, _)
\* x & y on non-negative integers.
BitAnd(x, y) ==
  IF x = 0 \/ y = 0 THEN 0
  ELSE ((x % 2) * (y % 2)) + 2 * BitAnd(x \div 2, y \div 2)

RECURSIVE BitOr(_, _)
\* x | y on non-negative integers.
BitOr(x, y) ==
  IF x = 0 THEN y
  ELSE IF y = 0 THEN x
  ELSE (IF (x % 2) + (y % 2) > 0 THEN 1 ELSE 0) + 2 * BitOr(x \div 2, y \div 2)

\* ~m truncated to a uint8_t, as in `out_private_key[0] |= ~248`.
BitNot8(m) == 255 - m

\* x ^ y on bytes (used only by the caller that flips signature bits).
BitXor(x, y) == BitOr(x, y) - BitAnd(x, y)

\* The function f over 1..n as a sequence value.
AsSeq(f) == f \o <<>>

\* A buffer of n bytes, all equal to b.
Fill(n, b) == AsSeq([i \in 1..n |-> b])

\* buf with C index idx (0-based) set to v.
SetByte(buf, idx, v) == [buf EXCEPT ![idx + 1] = v]

\* buf[idx] for a 0-based C index.
At(buf, idx) == buf[idx + 1]

\* buf after `buf[idx] &= m`.
AndByte(buf, idx, m) == SetByte(buf, idx, BitAnd(At(buf, idx), m))

\* buf after `buf[idx] |= m`.
OrByte(buf, idx, m) == SetByte(buf, idx, BitOr(At(buf, idx), m))

\* OPENSSL_memcpy(dst + off, src, n): dst with n bytes of src written at off.
Memcpy(dst, off, src, n) ==
  AsSeq([i \in 1..Len(dst) |->
           IF i > off /\ i <= off + n THEN src[i - off] ELSE dst[i]])

\* CRYPTO_memcmp(a, b, n): 0 when the first n bytes agree, non-zero otherwise.
CRYPTO_memcmp(a, b, n) ==
  IF \A i \in 1..n : a[i] = b[i] THEN 0 ELSE 1

(***************************************************************************)
(* Little-endian multi-byte arithmetic (the scalar arithmetic engine).     *)
(***************************************************************************)
\* a extended with zero bytes (or cut) to n bytes.
Resize(a, n) == AsSeq([i \in 1..n |-> IF i <= Len(a) THEN a[i] ELSE 0])

RECURSIVE CarryFrom(_, _, _)
\* Carry propagation: cols[i..] are column sums and carry is the carry into
\* column i; the bytes from column i up, with the final carry as a last
\* byte when it is not zero.
CarryFrom(cols, i, carry) ==
  IF i > Len(cols)
    THEN IF carry = 0 THEN <<>>
         ELSE <<carry % 256>> \o CarryFrom(cols, i, carry \div 256)
    ELSE LET s == cols[i] + carry
         IN <<s % 256>> \o CarryFrom(cols, i + 1, s \div 256)

\* a + b, Max(Len a, Len b) bytes plus a carry byte when needed.
AddLE(a, b) ==
  LET n == IF Len(a) > Len(b) THEN Len(a) ELSE Len(b)
      ra == Resize(a, n)
      rb == Resize(b, n)
  IN CarryFrom(AsSeq([i \in 1..n |-> ra[i] + rb[i]]), 1, 0)

RECURSIVE BorrowOut(_, _, _, _)
\* The borrow out of a - b (1 when a < b), computed from the least
\* significant byte up; borrow is the borrow into byte i.
BorrowOut(a, b, i, borrow) ==
  IF i > Len(a) THEN borrow
  ELSE IF a[i] - b[i] - borrow < 0
         THEN BorrowOut(a, b, i + 1, 1)
         ELSE BorrowOut(a, b, i + 1, 0)

\* a >= b as integers (both resized to the longer one).
GeqLE(a, b) ==
  LET n == IF Len(a) > Len(b) THEN Len(a) ELSE Len(b)
  IN BorrowOut(Resize(a, n), Resize(b, n), 1, 0) = 0

RECURSIVE SubFrom(_, _, _, _)
SubFrom(a, b, i, borrow) ==
  IF i > Len(a) THEN <<>>
  ELSE LET d == a[i] - b[i] - borrow
       IN IF d < 0
            THEN <<d + 256>> \o SubFrom(a, b, i + 1, 1)
            ELSE <<d>> \o SubFrom(a, b, i + 1, 0)

\* a - b for a >= b, Len(a) bytes.
SubLE(a, b) == SubFrom(a, Resize(b, Len(a)), 1, 0)

RECURSIVE ColumnSum(_, _, _, _)
\* Sum of a[j] * b[k + 1 - j] for j = i..k.
ColumnSum(a, b, k, i) ==
  IF i > Len(a) \/ i > k THEN 0
  ELSE (IF k + 1 - i <= Len(b) THEN a[i] * b[k + 1 - i] ELSE 0)
       + ColumnSum(a, b, k, i + 1)

\* a * b, Len(a) + Len(b) bytes.
MulLE(a, b) ==
  Resize(CarryFrom(AsSeq([k \in 1..(Len(a) + Len(b) - 1) |->
                            ColumnSum(a, b, k, 1)]),
                   1, 0),
         Len(a) + Len(b))

\* a * q for a small multiplier q (0..256).
MulSmall(a, q) == CarryFrom(AsSeq([i \in 1..Len(a) |-> a[i] * q]), 1, 0)

RECURSIVE DecimalLE(_, _, _)
\* The little-endian bytes of the decimal numeral digits (most significant
\* digit first), in Len(acc) bytes; acc is the value of digits[1..i-1].
DecimalLE(digits, i, acc) ==
  IF Len(acc) = 0 \/ i > Len(digits) THEN acc
  ELSE DecimalLE(digits, i + 1,
                 Resize(AddLE(MulSmall(acc, 10), <<digits[i]>>), Len(acc)))

(***************************************************************************)
(* The group order L = 2^252 + 27742317777372353535851937790883648493 of   *)
(* the arithmetic engine, and reduction modulo L.                          *)
(***************************************************************************)
\* L as 32 little-endian bytes.
GroupOrderLE ==
  << \hed, \hd3, \hf5, \h5c, \h1a, \h63, \h12, \h58,
     \hd6, \h9c, \hf7, \ha2, \hde, \hf9, \hde, \h14,
     0, 0, 0, 0, 0, 0, 0, 0, 0, 0, 0, 0, 0, 0, 0, \h10 >>

\* L - 2^252 as 17 little-endian bytes (it has 125 bits).
OrderTailLE == SubSeq(GroupOrderLE, 1, 17)

\* The decimal digits of L - 2^252.
OrderTailDigits ==
  << 2,7,7,4,2,3,1,7,7,7,7,3,7,2,3,5,3,5,3,5,
     8,5,1,9,3,7,7,9,0,8,8,3,6,4,8,4,9,3 >>

\* 2^252 + 27742317777372353535851937790883648493 as 32 little-endian
\* bytes, from the decimal numeral: 2^252 is bit 4 of byte 31.
OrderFromDecimal ==
  Resize(AddLE(AsSeq([i \in 1..32 |-> IF i = 32 THEN 16 ELSE 0]),
               DecimalLE(OrderTailDigits, 1, Fill(17, 0))), 32)

\* lo - qc when that is not negative, lo - qc + L otherwise; 32 bytes.
ModLFold(lo, qc) ==
  IF GeqLE(lo, qc)
    THEN SubLE(lo, qc)
    ELSE SubSeq(SubLE(Resize(AddLE(lo, GroupOrderLE), 33), qc), 1, 32)

\* t \div 2^252 for t of 33 or 34 bytes.
ModLQuotient(t) ==
  (IF Len(t) = 34 THEN t[34] * 4096 ELSE 0) + t[33] * 16 + (t[32] \div 16)

\* t mod 2^252 as 32 bytes.
ModLLow(t) == AsSeq([i \in 1..32 |-> IF i = 32 THEN t[32] % 16 ELSE t[i]])

\* (t mod L) for t = r * 256^k + b < 256^k * L, k = 1 or 2: with the
\* quotient estimate q = t \div 2^252 <= 256^k,
\* t - q * L = (t mod 2^252) - q * (L - 2^252) lies in (-L, L).
ModLReduce(t) ==
  ModLFold(ModLLow(t), Resize(MulSmall(OrderTailLE, ModLQuotient(t)), 32))

\* One step of the long division by L: (r * 256^k + b) mod L for r < L and
\* b of k = 1 or 2 bytes.
ModLStep(r, b) == ModLReduce(b \o r)

RECURSIVE ModLFrom(_, _, _)
\* r (32 bytes) is x[i+1..] mod L; bytes are taken from the most
\* significant down, two at a time while two are left.
ModLFrom(x, i, r) ==
  IF Len(r) # 32 \/ i = 0 THEN r
  ELSE ModLFrom(x, IF i = 1 THEN 0 ELSE i - 2,
                ModLStep(r, IF i = 1 THEN <<x[1]>> ELSE <<x[i - 1], x[i]>>))

\* x mod L as 32 little-endian bytes, for x of any length.  The top 31
\* bytes of x are below 2^248 < L and start the division.
ModL(x) ==
  IF Len(x) <= 31 THEN Resize(x, 32)
  ELSE ModLFrom(x, Len(x) - 31, Resize(SubSeq(x, Len(x) - 30, Len(x)), 32))

(***************************************************************************)
(* SHA-512 (openssl/sha.h): a deterministic digest of 64 bytes.  The       *)
(* context of the incremental interface is the data hashed so far.         *)
(***************************************************************************)
RECURSIVE Absorb(_, _, _)
\* The 16-bit state after absorbing data[lo..hi], position dependent.
Absorb(data, lo, hi) ==
  IF lo > hi THEN 5381
  ELSE IF lo = hi THEN (data[lo] * 251 + lo * 7 + 1) % 65521
  ELSE LET mid == (lo + hi) \div 2
       IN (Absorb(data, lo, mid) * 33 + Absorb(data, mid + 1, hi)) % 65521

\* The 64 output bytes for state s.
Squeeze(s) ==
  AsSeq([i \in 1..64 |-> (((s + i) * (75 + 2 * i) + 74) % 65537) % 256])

SHA512(data) == Squeeze(Absorb(data, 1, Len(data)) + Len(data))

SHA512_Init == <<>>
SHA512_Update(ctx, data, n) == ctx \o SubSeq(data, 1, n)
SHA512_Final(ctx) == SHA512(ctx)

(***************************************************************************)
(* The group arithmetic engine (curve25519 internal.h).  A point is its    *)
(* discrete logarithm k to the base point, 0 <= k < L, as 32 bytes.        *)
(***************************************************************************)
\* x25519_ge_scalarmult_base(&h, a): a times the base point, a[0..31].
x25519_ge_scalarmult_base(a) == ModL(SubSeq(a, 1, 32))

\* ge_p3_tobytes / x25519_ge_tobytes: the 32-byte encoding of a point.
ge_p3_tobytes(P) == P
x25519_ge_tobytes(P) == P

\* x25519_ge_frombytes_vartime(&h, s): decodes s; fails (0) when s is not
\* the encoding of a point.
x25519_ge_frombytes_vartime(s) ==
  IF GeqLE(s, GroupOrderLE)
    THEN [ok |-> 0, point |-> Fill(32, 0)]
    ELSE [ok |-> 1, point |-> s]

\* The point -P.
ge_neg(P) == ModL(SubLE(GroupOrderLE, P))

\* x25519_sc_reduce(s): s[0..31] = s[0..63] mod L, s[32..63] left as is.
x25519_sc_reduce(s) == Memcpy(s, 0, ModL(s), 32)

\* sc_muladd(s, a, b, c): s = (a * b + c) mod L on 32-byte scalars.
sc_muladd(a, b, c) ==
  ModL(AddLE(MulLE(SubSeq(a, 1, 32), SubSeq(b, 1, 32)), SubSeq(c, 1, 32)))

\* ge_double_scalarmult_vartime(&r, a, &A, b): a * A + b * B, B the base.
ge_double_scalarmult_vartime(a, A, b) ==
  ModL(AddLE(MulLE(SubSeq(a, 1, 32), A), SubSeq(b, 1, 32)))

(***************************************************************************)
(* Ed25519 (curve25519.c lines 238-361).                                   *)
(***************************************************************************)
ED25519_SEED_LEN == 32
SHA512_DIGEST_LENGTH == 64

\* Lines 244-246: az[0] &= 248; az[31] &= 127; az[31] |= 64.
KeypairClamp(az) == OrByte(AndByte(AndByte(az, 0, 248), 31, 127), 31, 64)

\* KeypairStore with the two halves in the wrong order.
KeypairStoreSwapped(out_private_key, seed, out_public_key) ==
  Memcpy(Memcpy(out_private_key, 0, out_public_key, 32),
         32, seed, ED25519_SEED_LEN)

\* Lines 252-253: the two copies into out_private_key.
KeypairStore(out_private_key, seed, out_public_key) ==
  Memcpy(Memcpy(out_private_key, 0, seed, ED25519_SEED_LEN),
         ED25519_SEED_LEN, out_public_key, 32)

\* Lines 248-253, given az.  The record holds the two output buffers and
\* the local az at return.
KeypairFromAz(out_private_key, seed, az, pub) ==
  [ az              |-> az,
    out_public_key  |-> pub,
    out_private_key |-> KeypairStore(out_private_key, seed, pub) ]

KeypairWithAz(out_private_key, seed, az) ==
  KeypairFromAz(out_private_key, seed, az,
                ge_p3_tobytes(x25519_ge_scalarmult_base(az)))

\* ED25519_keypair_from_seed(out_public_key, out_private_key, seed).
ED25519_keypair_from_seed(out_private_key, seed) ==
  KeypairWithAz(out_private_key, seed,
                KeypairClamp(SHA512(SubSeq(seed, 1, ED25519_SEED_LEN))))

\* OPENSSL_cleanse(buf, n): n zero bytes.
OPENSSL_cleanse(buf, n) == Memcpy(buf, 0, Fill(n, 0), n)

\* Lines 259-260, given what ED25519_keypair_from_seed returned: the local
\* seed is cleansed.
KeypairCleanse(kp, seed) ==
  [ az              |-> kp.az,
    out_public_key  |-> kp.out_public_key,
    out_private_key |-> kp.out_private_key,
    seed            |-> OPENSSL_cleanse(seed, ED25519_SEED_LEN) ]

\* ED25519_keypair(out_public_key, out_private_key), with rand the bytes
\* RAND_bytes wrote into the local seed.
ED25519_keypair(out_private_key, rand) ==
  KeypairCleanse(ED25519_keypair_from_seed(out_private_key, rand), rand)

\* SignClamp without az[31] |= 64.
SignClampNoSet(az) == AndByte(AndByte(az, 0, 248), 31, 63)

\* Lines 273-275: az[0] &= 248; az[31] &= 63; az[31] |= 64.
SignClamp(az) == OrByte(AndByte(AndByte(az, 0, 248), 31, 63), 31, 64)

\* Lines 277-282: nonce = SHA512(az[32..63] || message).
SignNonce(az, message, message_len) ==
  SHA512_Final(SHA512_Update(SHA512_Update(SHA512_Init,
                 SubSeq(az, 33, 64), 32), message, message_len))

\* SignHram hashing the seed half of the private key, not the public half.
SignHramSeed(out_sig, private_key, message, message_len) ==
  SHA512_Final(SHA512_Update(SHA512_Update(SHA512_Update(SHA512_Init,
                 out_sig, 32), SubSeq(private_key, 1, 32), 32),
                 message, message_len))

\* Lines 289-294: hram = SHA512(R || private_key[32..63] || message).
SignHram(out_sig, private_key, message, message_len) ==
  SHA512_Final(SHA512_Update(SHA512_Update(SHA512_Update(SHA512_Init,
                 out_sig, 32), SubSeq(private_key, 33, 64), 32),
                 message, message_len))

\* Lines 297-299: S = hram * az + nonce, and the return.  The record holds
\* the locals az, nonce and hram at return, the output and the result.
SignFinish(sig, message, private_key, az, nonce, hram) ==
  [ az          |-> az,
    nonce       |-> nonce,
    hram        |-> hram,
    out_sig     |-> Memcpy(sig, 32, sc_muladd(hram, az, nonce), 32),
    message     |-> message,
    private_key |-> private_key,
    ret         |-> 1 ]

\* Lines 289-296: hram, reduced, from the signature buffer holding R.
SignChallenge(sig, message, message_len, private_key, az, nonce) ==
  SignFinish(sig, message, private_key, az, nonce,
             x25519_sc_reduce(SignHram(sig, private_key, message,
                                       message_len)))

\* SignCommit with hram hashed from out_sig as it was before R is written.
SignCommitStale(out_sig, message, message_len, private_key, az, nonce) ==
  SignFinish(Memcpy(out_sig, 0,
                    ge_p3_tobytes(x25519_ge_scalarmult_base(nonce)), 32),
             message, private_key, az, nonce,
             x25519_sc_reduce(SignHram(out_sig, private_key, message,
                                       message_len)))

\* Lines 284-287: the nonce is reduced and R = nonce * B is written to
\* out_sig[0..31].
SignCommit(out_sig, message, message_len, private_key, az, nonce) ==
  SignChallenge(Memcpy(out_sig, 0,
                       ge_p3_tobytes(x25519_ge_scalarmult_base(nonce)), 32),
                message, message_len, private_key, az, nonce)

\* Lines 277-284, given az.
SignWithAz(out_sig, message, message_len, private_key, az) ==
  SignCommit(out_sig, message, message_len, private_key, az,
             x25519_sc_reduce(SignNonce(az, message, message_len)))

\* ED25519_sign(out_sig, message, message_len, private_key).
ED25519_sign(out_sig, message, message_len, private_key) ==
  SignWithAz(out_sig, message, message_len, private_key,
             SignClamp(SHA512(SubSeq(private_key, 1, 32))))

\* Lines 327-332: kOrder, four 64-bit words, least significant word first.
\* A 64-bit word is written as its 8 bytes, most significant byte first.
kOrder ==
  << << \h58, \h12, \h63, \h1a, \h5c, \hf5, \hd3, \hed >>,
     << \h14, \hde, \hf9, \hde, \ha2, \hf7, \h9c, \hd6 >>,
     << 0, 0, 0, 0, 0, 0, 0, 0 >>,
     << \h10, 0, 0, 0, 0, 0, 0, 0 >> >>

\* CRYPTO_load_u64_le(buf + off): the word whose least significant byte is
\* buf[off].
CRYPTO_load_u64_le(buf, off) == AsSeq([k \in 1..8 |-> buf[off + 9 - k]])

\* a < b on 64-bit words.
U64Less(a, b) ==
  \E k \in 1..8 : a[k] < b[k] /\ \A j \in 1..(k - 1) : a[j] = b[j]

RECURSIVE ScalarRangeLoopNoEqual(_, _)
\* ScalarRangeLoop leaving by break, not by return 0, when every word is
\* equal.
ScalarRangeLoopNoEqual(scopy, i) ==
  LET word == CRYPTO_load_u64_le(scopy, i * 8)
  IN IF U64Less(kOrder[i + 1], word) THEN FALSE
     ELSE IF U64Less(word, kOrder[i + 1]) THEN TRUE
     ELSE IF i = 0 THEN TRUE
     ELSE ScalarRangeLoopNoEqual(scopy, i - 1)

RECURSIVE ScalarRangeLoop(_, _)
\* Lines 333-342, from index i down: TRUE when the loop leaves by break
\* (scopy < kOrder), FALSE when it returns 0.
ScalarRangeLoop(scopy, i) ==
  LET word == CRYPTO_load_u64_le(scopy, i * 8)
  IN IF U64Less(kOrder[i + 1], word) THEN FALSE
     ELSE IF U64Less(word, kOrder[i + 1]) THEN TRUE
     ELSE IF i = 0 THEN FALSE
     ELSE ScalarRangeLoop(scopy, i - 1)

\* VerifyMalformed without the test of signature[63].
VerifyMalformedPointOnly(signature, public_key) ==
  x25519_ge_frombytes_vartime(public_key).ok = 0

\* Lines 305-306: the condition of the first return 0.
VerifyMalformed(signature, public_key) ==
  \/ BitAnd(At(signature, 63), 224) # 0
  \/ x25519_ge_frombytes_vartime(public_key).ok = 0

\* Lines 310-314: A.X and A.T negated, which is the point -A.
VerifyNegate(A) == ge_neg(A)

\* Lines 344-350: h = SHA512(signature[0..31] || public_key || message).
VerifyHash(signature, public_key, message, message_len) ==
  SHA512_Final(SHA512_Update(SHA512_Update(SHA512_Update(SHA512_Init,
                 signature, 32), public_key, 32), message, message_len))

\* VerifyCompare with the size of a pointer in place of the array's.
VerifyCompareShort(rcheck, rcopy) ==
  IF CRYPTO_memcmp(rcheck, rcopy, 8) = 0 THEN 1 ELSE 0

\* Line 360: CRYPTO_memcmp(rcheck, rcopy, sizeof(rcheck)) == 0.
VerifyCompare(rcheck, rcopy) ==
  IF CRYPTO_memcmp(rcheck, rcopy, 32) = 0 THEN 1 ELSE 0

\* Lines 344-360: the hash, the double scalar multiplication and the
\* comparison of its encoding with R.
VerifyCheck(message, message_len, signature, public_key, A, rcopy, scopy) ==
  [ ret |-> VerifyCompare(
              x25519_ge_tobytes(
                ge_double_scalarmult_vartime(
                  x25519_sc_reduce(VerifyHash(signature, public_key, message,
                                              message_len)),
                  A, scopy)),
              rcopy),
    exit |-> "compare", range_checked |-> TRUE, hashed |-> TRUE ]

\* Lines 323-360, given the negated point and the copies of R and S.
VerifyDecoded(message, message_len, signature, public_key, A, rcopy, scopy) ==
  IF ~ScalarRangeLoop(scopy, 3)
    THEN [ ret |-> 0, exit |-> "range",
           range_checked |-> TRUE, hashed |-> FALSE ]
    ELSE VerifyCheck(message, message_len, signature, public_key, A, rcopy,
                     scopy)

\* ED25519_verify(message, message_len, signature, public_key).  ret is
\* the result; exit names the return statement taken; range_checked and
\* hashed tell whether the range loop and the hash were run.
ED25519_verify(message, message_len, signature, public_key) ==
  IF VerifyMalformed(signature, public_key)
    THEN [ ret |-> 0, exit |-> "malformed",
           range_checked |-> FALSE, hashed |-> FALSE ]
    ELSE VerifyDecoded(
           message, message_len, signature, public_key,
           VerifyNegate(x25519_ge_frombytes_vartime(public_key).point),
           Memcpy(Fill(32, 0), 0, signature, 32),
           Memcpy(Fill(32, 0), 0, SubSeq(signature, 33, 64), 32))

(***************************************************************************)
(* The build configuration and the CPU (lines 34-134).  arch, os, no_asm   *)
(* and asm_too_old are the preprocessor symbols OPENSSL_X86_64 /           *)
(* OPENSSL_AARCH64, OPENSSL_LINUX / OPENSSL_APPLE, OPENSSL_NO_ASM and      *)
(* MY_ASSEMBLER_IS_TOO_OLD_FOR_AVX; bmi2, adx and wide_mul are what the    *)
(* CPU reports at run time.                                                *)
(***************************************************************************)
Configs ==
  { c \in [ arch : {"x86_64", "aarch64", "other"},
            os : {"linux", "apple", "other"},
            no_asm : BOOLEAN, asm_too_old : BOOLEAN,
            bmi2 : BOOLEAN, adx : BOOLEAN, wide_mul : BOOLEAN ] :
      \* x86 features exist on x86_64 only, the Armv8 one on aarch64 only
      /\ (c.arch # "x86_64" => ~c.bmi2 /\ ~c.adx /\ ~c.asm_too_old)
      /\ (c.arch # "aarch64" => ~c.wide_mul) }

\* cpucap/internal.h: the run-time feature queries.
CRYPTO_is_BMI2_capable(c) == IF c.bmi2 THEN 1 ELSE 0
CRYPTO_is_ADX_capable(c) == IF c.adx THEN 1 ELSE 0
CRYPTO_is_ARMv8_wide_multiplier_capable(c) == IF c.wide_mul THEN 1 ELSE 0

\* Lines 36-43: whether CURVE25519_S2N_BIGNUM_CAPABLE is defined.
CURVE25519_S2N_BIGNUM_CAPABLE(c) ==
  /\ \/ (c.arch = "x86_64" /\ ~c.asm_too_old)
     \/ c.arch = "aarch64"
  /\ (c.os = "linux" \/ c.os = "apple")
  /\ ~c.no_asm

x25519_s2n_bignum_capable(c) ==
  IF CURVE25519_S2N_BIGNUM_CAPABLE(c) THEN 1 ELSE 0

\* x25519_s2n_bignum_alt_capable asking for BMI2 and ADX on x86_64 as the
\* no-alt predicate does.
x25519_s2n_bignum_alt_capableStrict(c) ==
  IF c.arch = "x86_64"
    THEN IF CRYPTO_is_BMI2_capable(c) = 1 /\ CRYPTO_is_ADX_capable(c) = 1
           THEN 1 ELSE 0
  ELSE IF c.arch = "aarch64"
    THEN IF CRYPTO_is_ARMv8_wide_multiplier_capable(c) = 1 THEN 1 ELSE 0
  ELSE 0

x25519_s2n_bignum_alt_capable(c) ==
  IF c.arch = "x86_64" THEN 1
  ELSE IF c.arch = "aarch64"
    THEN IF CRYPTO_is_ARMv8_wide_multiplier_capable(c) = 1 THEN 1 ELSE 0
  ELSE 0

x25519_s2n_bignum_no_alt_capable(c) ==
  IF c.arch = "x86_64"
    THEN IF CRYPTO_is_BMI2_capable(c) = 1 /\ CRYPTO_is_ADX_capable(c) = 1
           THEN 1 ELSE 0
  ELSE IF c.arch = "aarch64" THEN 1
  ELSE 0

(***************************************************************************)
(* The X25519 backends.  The s2n-bignum functions and the nohw functions   *)
(* compute the X25519 function of RFC 7748: the scalar is clamped, the top *)
(* bit of the u-coordinate is ignored.  In the group of the model the      *)
(* u-coordinate of the point with discrete logarithm d is 9 * d mod L, so  *)
(* the base point has u = 9 and scalar multiplication acts on u by         *)
(* multiplication modulo L.                                                *)
(***************************************************************************)
\* decodeScalar25519 of RFC 7748.
DecodeScalar25519(k) == OrByte(AndByte(AndByte(k, 0, 248), 31, 127), 31, 64)

\* decodeUCoordinate of RFC 7748: the top bit is masked.
DecodeUCoordinate(u) == SetByte(u, 31, BitAnd(At(u, 31), 127))

\* The u-coordinate of the base point.
kMontBasePoint == AsSeq([i \in 1..32 |-> IF i = 1 THEN 9 ELSE 0])

\* X25519(k, u) of RFC 7748.
X25519Function(scalar, point) ==
  ModL(MulLE(DecodeScalar25519(scalar), DecodeUCoordinate(point)))

\* The outcome of a call that does not return.
Aborted == [aborted |-> TRUE, res |-> <<>>]

\* Lines 58-82: each s2n-bignum entry point is the assembly routine when
\* CURVE25519_S2N_BIGNUM_CAPABLE is defined and a stub that aborts when not.
curve25519_x25519_byte(c, scalar, point) ==
  IF CURVE25519_S2N_BIGNUM_CAPABLE(c)
    THEN [aborted |-> FALSE, res |-> X25519Function(scalar, point)]
    ELSE Aborted

curve25519_x25519_byte_alt(c, scalar, point) ==
  IF CURVE25519_S2N_BIGNUM_CAPABLE(c)
    THEN [aborted |-> FALSE, res |-> X25519Function(scalar, point)]
    ELSE Aborted

curve25519_x25519base_byte(c, scalar) ==
  IF CURVE25519_S2N_BIGNUM_CAPABLE(c)
    THEN [aborted |-> FALSE, res |-> X25519Function(scalar, kMontBasePoint)]
    ELSE Aborted

curve25519_x25519base_byte_alt(c, scalar) ==
  IF CURVE25519_S2N_BIGNUM_CAPABLE(c)
    THEN [aborted |-> FALSE, res |-> X25519Function(scalar, kMontBasePoint)]
    ELSE Aborted

\* x25519_scalar_mult_generic_nohw(out, scalar, point): the portable ladder.
x25519_scalar_mult_generic_nohw(scalar, point) ==
  [aborted |-> FALSE, res |-> X25519Function(scalar, point)]

\* x25519_public_from_private_nohw(out, private_key): the clamped scalar
\* times the Edwards base point, converted to its Montgomery u-coordinate.
x25519_public_from_private_nohw(private_key) ==
  [ aborted |-> FALSE,
    res |-> ModL(MulSmall(
              x25519_ge_scalarmult_base(DecodeScalar25519(private_key)), 9)) ]

(***************************************************************************)
(* The X25519 dispatch (lines 159-235) and API (lines 364-411).  A call    *)
(* yields a record: aborted (the call reached abort() and did not          *)
(* return), out (the output buffer), private_key (the caller's key buffer  *)
(* after the call), private_key_internal_demask (the local copy when the   *)
(* call ended) and backend (the function the dispatch called).             *)
(***************************************************************************)
\* X25519Demask with the two masks applied to each other's byte.
X25519DemaskWrongBytes(private_key) ==
  [ private_key |-> private_key,
    private_key_internal_demask |->
      OrByte(AndByte(AndByte(Memcpy(Fill(32, 0), 0, private_key, 32),
                             0, 127), 31, 248), 31, 64) ]

\* X25519Demask clamping the caller's buffer, with no local copy.
X25519DemaskInPlace(private_key) ==
  [ private_key |->
      OrByte(AndByte(AndByte(private_key, 0, 248), 31, 127), 31, 64),
    private_key_internal_demask |->
      OrByte(AndByte(AndByte(private_key, 0, 248), 31, 127), 31, 64) ]

\* Lines 162-166 and 203-207: the caller's key is copied to the local
\* private_key_internal_demask and the copy is clamped.
X25519Demask(private_key) ==
  [ private_key |-> private_key,
    private_key_internal_demask |->
      OrByte(AndByte(AndByte(Memcpy(Fill(32, 0), 0, private_key, 32),
                             0, 248), 31, 127), 31, 64) ]

\* Lines 168-197: the backend x25519_s2n_bignum calls.
X25519Select(c) ==
  IF c.arch = "x86_64"
    THEN IF x25519_s2n_bignum_no_alt_capable(c) = 1
           THEN "curve25519_x25519_byte"
         ELSE IF x25519_s2n_bignum_alt_capable(c) = 1
           THEN "curve25519_x25519_byte_alt"
         ELSE "abort"
  ELSE IF c.arch = "aarch64"
    THEN IF x25519_s2n_bignum_alt_capable(c) = 1
           THEN "curve25519_x25519_byte_alt"
         ELSE IF x25519_s2n_bignum_no_alt_capable(c) = 1
           THEN "curve25519_x25519_byte"
         ELSE "abort"
  ELSE "abort"

\* X25519BaseSelect with the x86_64 order of the tests on aarch64 too.
X25519BaseSelectSameOrder(c) ==
  IF c.arch = "x86_64" \/ c.arch = "aarch64"
    THEN IF x25519_s2n_bignum_no_alt_capable(c) = 1
           THEN "curve25519_x25519base_byte"
         ELSE IF x25519_s2n_bignum_alt_capable(c) = 1
           THEN "curve25519_x25519base_byte_alt"
         ELSE "abort"
  ELSE "abort"

\* Lines 209-234: the backend x25519_s2n_bignum_public_from_private calls.
X25519BaseSelect(c) ==
  IF c.arch = "x86_64"
    THEN IF x25519_s2n_bignum_no_alt_capable(c) = 1
           THEN "curve25519_x25519base_byte"
         ELSE IF x25519_s2n_bignum_alt_capable(c) = 1
           THEN "curve25519_x25519base_byte_alt"
         ELSE "abort"
  ELSE IF c.arch = "aarch64"
    THEN IF x25519_s2n_bignum_alt_capable(c) = 1
           THEN "curve25519_x25519base_byte_alt"
         ELSE IF x25519_s2n_bignum_no_alt_capable(c) = 1
           THEN "curve25519_x25519base_byte"
         ELSE "abort"
  ELSE "abort"

\* What a dispatcher leaves behind, given the buffers m after the clamping,
\* the backend fn chosen and the outcome r of calling it.
S2nReturn(out, m, fn, r) ==
  [ aborted     |-> r.aborted,
    out         |-> IF r.aborted THEN out ELSE r.res,
    private_key |-> m.private_key,
    private_key_internal_demask |-> m.private_key_internal_demask,
    backend     |-> fn ]

\* Lines 168-197, given the buffers m after the clamping and the choice fn.
S2nCall(c, out_shared_key, m, fn, peer_public_value) ==
  S2nReturn(out_shared_key, m, fn,
    IF fn = "curve25519_x25519_byte"
      THEN curve25519_x25519_byte(c, m.private_key_internal_demask,
                                  peer_public_value)
    ELSE IF fn = "curve25519_x25519_byte_alt"
      THEN curve25519_x25519_byte_alt(c, m.private_key_internal_demask,
                                      peer_public_value)
    ELSE Aborted)

\* x25519_s2n_bignum(out_shared_key, private_key, peer_public_value).
x25519_s2n_bignum(c, out_shared_key, private_key, peer_public_value) ==
  S2nCall(c, out_shared_key, X25519Demask(private_key), X25519Select(c),
          peer_public_value)

\* Lines 209-234, given the buffers m after the clamping and the choice fn.
S2nBaseCall(c, out_public_value, m, fn) ==
  S2nReturn(out_public_value, m, fn,
    IF fn = "curve25519_x25519base_byte"
      THEN curve25519_x25519base_byte(c, m.private_key_internal_demask)
    ELSE IF fn = "curve25519_x25519base_byte_alt"
      THEN curve25519_x25519base_byte_alt(c, m.private_key_internal_demask)
    ELSE Aborted)

\* x25519_s2n_bignum_public_from_private(out_public_value, private_key).
x25519_s2n_bignum_public_from_private(c, out_public_value, private_key) ==
  S2nBaseCall(c, out_public_value, X25519Demask(private_key),
              X25519BaseSelect(c))

\* X25519_public_from_private without the portable branch.
X25519_public_from_privateNoFallback(c, out_public_value, private_key) ==
  x25519_s2n_bignum_public_from_private(c, out_public_value, private_key)

\* X25519_public_from_private(out_public_value, private_key).
X25519_public_from_private(c, out_public_value, private_key) ==
  IF x25519_s2n_bignum_capable(c) = 1
    THEN x25519_s2n_bignum_public_from_private(c, out_public_value,
                                               private_key)
    ELSE [ aborted     |-> FALSE,
           out         |-> x25519_public_from_private_nohw(private_key).res,
           private_key |-> private_key,
           private_key_internal_demask |-> <<>>,
           backend     |-> "x25519_public_from_private_nohw" ]

\* KeypairUnclamp with the masks themselves in place of their complements.
KeypairUnclampNoNot(out_private_key) ==
  OrByte(AndByte(OrByte(out_private_key, 0, 248), 31, 64), 31, 127)

\* Lines 390-392: out_private_key[0] |= ~248; out_private_key[31] &= ~64;
\* out_private_key[31] |= ~127.
KeypairUnclamp(out_private_key) ==
  OrByte(AndByte(OrByte(out_private_key, 0, BitNot8(248)),
                 31, BitNot8(64)), 31, BitNot8(127))

\* X25519_keypair(out_public_value, out_private_key), with rand the bytes
\* RAND_bytes wrote into out_private_key.
X25519_keypair(c, out_public_value, rand) ==
  X25519_public_from_private(c, out_public_value, KeypairUnclamp(rand))

\* Line 400.
kZeros == Fill(32, 0)

\* X25519Result without the comparison with kZeros.
X25519ResultUnchecked(out_shared_key) == 1

\* Line 410: the value X25519 returns.
X25519Result(out_shared_key) ==
  IF CRYPTO_memcmp(kZeros, out_shared_key, 32) # 0 THEN 1 ELSE 0

\* Line 410, given what the multiplication left behind.  ret is the value
\* returned (-1: the call did not return).
X25519Return(r) ==
  [ aborted     |-> r.aborted,
    out         |-> r.out,
    private_key |-> r.private_key,
    private_key_internal_demask |-> r.private_key_internal_demask,
    backend     |-> r.backend,
    ret         |-> IF r.aborted THEN -1 ELSE X25519Result(r.out) ]

\* X25519 with the scalar and the point passed in each other's place.
X25519Swapped(c, out_shared_key, private_key, peer_public_value) ==
  X25519Return(
    IF x25519_s2n_bignum_capable(c) = 1
      THEN x25519_s2n_bignum(c, out_shared_key, peer_public_value,
                             private_key)
      ELSE [ aborted     |-> FALSE,
             out         |-> x25519_scalar_mult_generic_nohw(
                               peer_public_value, private_key).res,
             private_key |-> private_key,
             private_key_internal_demask |-> <<>>,
             backend     |-> "x25519_scalar_mult_generic_nohw" ])

\* X25519(out_shared_key, private_key, peer_public_value).
X25519(c, out_shared_key, private_key, peer_public_value) ==
  X25519Return(
    IF x25519_s2n_bignum_capable(c) = 1
      THEN x25519_s2n_bignum(c, out_shared_key, private_key,
                             peer_public_value)
      ELSE [ aborted     |-> FALSE,
             out         |-> x25519_scalar_mult_generic_nohw(
                               private_key, peer_public_value).res,
             private_key |-> private_key,
             private_key_internal_demask |-> <<>>,
             backend     |-> "x25519_scalar_mult_generic_nohw" ])

(***************************************************************************)
(* The state: the caller's buffers around the library, the build           *)
(* configuration, and whether the process has aborted.                     *)
(***************************************************************************)
VARIABLES
  ed_pc,       \* "off", "start", "keyed", "signed", "resigned", "tampered",
               \* "verified", "aborted"
  ed_seed,     \* the seed the key pair was made from
  ed_public,   \* out_public_key of the key generation
  ed_private,  \* out_private_key of the key generation
  ed_message,  \* the message signed
  ed_sig,      \* the signature buffer (the caller may alter it)
  ed_signed,   \* out_sig as ED25519_sign wrote it
  ed_pk,       \* the public key handed to ED25519_verify
  ed_ret,      \* the record of the last ED25519_sign / ED25519_verify call
  ed_locals,   \* the local buffers of the last key generation or signing
  cfg,         \* the build configuration and CPU
  x_pc,        \* "off", or how far the X25519 exchange has got
  x_key,       \* the private keys as the caller supplied them
  x_priv,      \* the private key buffers
  x_pub,       \* the public value buffers
  x_shared,    \* the shared key buffers
  x_ret,       \* what X25519 returned to each party (-1: nothing yet)
  x_peer,      \* the peer value each party passed to X25519
  x_last,      \* backend and local buffer of the last X25519 call
  x_rand,      \* the bytes RAND_bytes wrote for X25519_keypair (<<>>: none)
  aborted,     \* the process reached abort()
  cert,        \* the certificate x: what its extensions decode to
  ex_flags,    \* x->ex_flags, the set of EXFLAG_ bits that are set
  ex_cache,    \* the other cached fields of x (ex_pathlen, ex_kusage, ...)
  lock,        \* x->lock: the writer and the set of readers holding it
  c_pc,        \* where each thread is in x509v3_cache_extensions
  c_is_set,    \* each thread's local is_set
  c_ret,       \* what the call returned to each thread (-1: nothing yet)
  c_path,      \* the return statement each thread left by
  c_runs       \* how many times the parsing body has been entered

ed_vars == << ed_pc, ed_seed, ed_public, ed_private, ed_message, ed_sig,
              ed_signed, ed_pk, ed_ret, ed_locals >>
x_vars  == << cfg, x_pc, x_key, x_priv, x_pub, x_shared, x_ret, x_peer,
              x_last, x_rand, aborted >>
c_vars  == << cert, ex_flags, ex_cache, lock, c_pc, c_is_set, c_ret, c_path,
              c_runs >>
vars    == << ed_vars, x_vars, c_vars >>

(***************************************************************************)
(* Bounds and the inputs drawn within them.                                *)
(***************************************************************************)
NumSeeds == 2
NumEdRand == 1
MaxMsgLen == 1
NumXKeys == 2
NumXRand == 2

\* Caller-supplied seeds.
SeedOf(k) == AsSeq([i \in 1..32 |-> (k * 37 + i * 11) % 256])
Seeds == { SeedOf(k) : k \in 1..NumSeeds }

\* What RAND_bytes may write: all zero, all ones, then mixed patterns.
RandOf(k) ==
  AsSeq([i \in 1..32 |-> IF k = 1 THEN 0
                         ELSE IF k = 2 THEN 255
                         ELSE (k * 53 + i * i * 3) % 256])

\* Messages of every length up to MaxMsgLen.
MessageOf(n) == AsSeq([i \in 1..n |-> (96 + i) % 256])
Messages == { MessageOf(n) : n \in 0..MaxMsgLen }

\* X25519 private keys as stored: not clamped.
XKeyOf(k) ==
  AsSeq([i \in 1..32 |-> IF k = 1 THEN 255 ELSE (k * 29 + i * 7) % 256])

Parties == {"a", "b"}
Other(p) == IF p = "a" THEN "b" ELSE "a"

\* The content of a buffer the library has not written yet.
Unwritten(n) == Fill(n, 170)

\* Peer values of small order: u = 0, u = 2^255 (the top bit alone, which
\* the backends ignore) and the other encoding of the identity, L.
DegeneratePeers == { kZeros, SetByte(kZeros, 31, 128), GroupOrderLE }

\* The S half and the R half of a signature.
SigS(sig) == SubSeq(sig, 33, 64)
SigR(sig) == SubSeq(sig, 1, 32)

\* How the caller may alter one signature byte: C index and the bit
\* flipped.
FlipCases == { <<i, m>> : i \in 0..63, m \in {1, 2, 4, 8, 16, 32, 64, 128} }

\* The byte positions at the two ends of each 64-bit word of S.
WordEnds == {0, 7, 8, 15, 16, 23, 24, 31}

\* Values the caller may put in place of S: L, L with one byte one up or
\* one down, S + L, 0 and 2^256 - 1.
SCases(sig) ==
  { GroupOrderLE, Fill(32, 0), Fill(32, 255),
    Resize(AddLE(SigS(sig), GroupOrderLE), 32) }
  \cup { SetByte(GroupOrderLE, j, At(GroupOrderLE, j) + 1) :
           j \in { w \in WordEnds : At(GroupOrderLE, w) < 255 } }
  \cup { SetByte(GroupOrderLE, j, At(GroupOrderLE, j) - 1) :
           j \in { w \in WordEnds : At(GroupOrderLE, w) > 0 } }

\* Public keys the caller may hand to verify in place of the signer's:
\* encodings that are not a point, and another signer's key.
PkCases ==
  { Fill(32, 255), GroupOrderLE,
    ED25519_keypair_from_seed(Fill(64, 0), SeedOf(NumSeeds + 1)).out_public_key }

(***************************************************************************)
(* Ed25519: a key pair is made, a message is signed, the caller may alter  *)
(* the signature or the public key, and the signature is verified.         *)
(***************************************************************************)
\* A configuration for runs that do not use X25519.
PortableConfig ==
  [ arch |-> "other", os |-> "other", no_asm |-> FALSE, asm_too_old |-> FALSE,
    bmi2 |-> FALSE, adx |-> FALSE, wide_mul |-> FALSE ]

XOff ==
  /\ cfg = PortableConfig
  /\ x_pc = "off"
  /\ x_key = [p \in Parties |-> Unwritten(32)]
  /\ x_priv = [p \in Parties |-> Unwritten(32)]
  /\ x_pub = [p \in Parties |-> Unwritten(32)]
  /\ x_shared = [p \in Parties |-> Unwritten(32)]
  /\ x_ret = [p \in Parties |-> -1]
  /\ x_peer = [p \in Parties |-> <<>>]
  /\ x_last = <<>>
  /\ x_rand = <<>>
  /\ aborted = FALSE

\* No certificate is in use.
COff ==
  /\ cert = <<>>
  /\ ex_flags = {}
  /\ ex_cache = <<>>
  /\ lock = <<>>
  /\ c_pc = <<>>
  /\ c_is_set = <<>>
  /\ c_ret = <<>>
  /\ c_path = <<>>
  /\ c_runs = 0

EdStart(pc) ==
  /\ ed_pc = pc
  /\ ed_seed = <<>>
  /\ ed_public = Unwritten(32)
  /\ ed_private = Unwritten(64)
  /\ ed_message = <<>>
  /\ ed_sig = Unwritten(64)
  /\ ed_signed = <<>>
  /\ ed_pk = <<>>
  /\ ed_ret = <<>>
  /\ ed_locals = <<>>

InitEd == EdStart("start") /\ XOff /\ COff

\* The caller's buffers after a key generation that returned kp from seed.
EdKeyed(kp, seed) ==
  /\ ed_public' = kp.out_public_key
  /\ ed_private' = kp.out_private_key
  /\ ed_locals' = kp
  /\ ed_seed' = seed
  /\ ed_pc' = "keyed"
  /\ UNCHANGED << ed_message, ed_sig, ed_signed, ed_pk, ed_ret, x_vars,
                  c_vars >>

\* The caller calls ED25519_keypair_from_seed with one of the seeds.
EdKeypairFromSeed(seed) ==
  /\ ed_pc = "start"
  /\ EdKeyed(ED25519_keypair_from_seed(ed_private, seed), seed)

\* The caller calls ED25519_keypair; RAND_bytes writes rand.
EdKeypair(rand) ==
  /\ ed_pc = "start"
  /\ EdKeyed(ED25519_keypair(ed_private, rand), rand)

\* The caller's buffers after ED25519_sign returned r.
EdSigned(r) ==
  /\ ed_sig' = r.out_sig
  /\ ed_signed' = r.out_sig
  /\ ed_message' = r.message
  /\ ed_private' = r.private_key
  /\ ed_locals' = r
  /\ ed_ret' = [op |-> "sign", ret |-> r.ret]
  /\ ed_pk' = ed_public
  /\ ed_pc' = "signed"
  /\ UNCHANGED << ed_seed, ed_public, x_vars, c_vars >>

\* The caller calls ED25519_sign on a message with the private key.
EdSign(message) ==
  /\ ed_pc = "keyed"
  /\ EdSigned(ED25519_sign(ed_sig, message, Len(message), ed_private))

\* The caller's buffers after a second ED25519_sign returned r.
EdResigned(r) ==
  /\ ed_sig' = r.out_sig
  /\ ed_message' = r.message
  /\ ed_private' = r.private_key
  /\ ed_locals' = r
  /\ ed_ret' = [op |-> "sign", ret |-> r.ret]
  /\ ed_pc' = "resigned"
  /\ UNCHANGED << ed_seed, ed_public, ed_signed, ed_pk, x_vars, c_vars >>

\* The caller calls ED25519_sign again, on the same message with the same
\* key, into the buffer that holds the first signature.
EdSignAgain ==
  /\ ed_pc = "signed"
  /\ EdResigned(ED25519_sign(ed_sig, ed_message, Len(ed_message), ed_private))

\* The caller changes one byte of the signature.
EdFlipByte(i, mask) ==
  /\ ed_pc = "signed"
  /\ ed_sig' = SetByte(ed_sig, i, BitXor(At(ed_sig, i), mask))
  /\ ed_pc' = "tampered"
  /\ UNCHANGED << ed_seed, ed_public, ed_private, ed_message, ed_signed,
                  ed_pk, ed_ret, ed_locals, x_vars, c_vars >>

\* The caller replaces the S half of the signature.
EdReplaceS(s) ==
  /\ ed_pc = "signed"
  /\ ed_sig' = Memcpy(ed_sig, 32, s, 32)
  /\ ed_pc' = "tampered"
  /\ UNCHANGED << ed_seed, ed_public, ed_private, ed_message, ed_signed,
                  ed_pk, ed_ret, ed_locals, x_vars, c_vars >>

\* The caller verifies against another public key.
EdReplacePk(pk) ==
  /\ ed_pc = "signed"
  /\ ed_pk' = pk
  /\ ed_pc' = "tampered"
  /\ UNCHANGED << ed_seed, ed_public, ed_private, ed_message, ed_sig,
                  ed_signed, ed_ret, ed_locals, x_vars, c_vars >>

\* The state after ED25519_verify returned v.
EdVerified(v) ==
  /\ ed_ret' = [ op |-> "verify", ret |-> v.ret, exit |-> v.exit,
                 range_checked |-> v.range_checked, hashed |-> v.hashed ]
  /\ ed_pc' = "verified"
  /\ UNCHANGED << ed_seed, ed_public, ed_private, ed_message, ed_sig,
                  ed_signed, ed_pk, ed_locals, x_vars, c_vars >>

\* The caller calls ED25519_verify.
EdVerify ==
  /\ ed_pc \in {"signed", "tampered"}
  /\ EdVerified(ED25519_verify(ed_message, Len(ed_message), ed_sig, ed_pk))

NextEd ==
  \/ \E seed \in Seeds : EdKeypairFromSeed(seed)
  \/ \E k \in 1..NumEdRand : EdKeypair(RandOf(k))
  \/ \E message \in Messages : EdSign(message)
  \/ EdSignAgain
  \/ \E f \in FlipCases : EdFlipByte(f[1], f[2])
  \/ \E s \in SCases(ed_sig) : EdReplaceS(s)
  \/ \E pk \in PkCases : EdReplacePk(pk)
  \/ EdVerify

SpecEd == InitEd /\ [][NextEd]_vars

(***************************************************************************)
(* X25519: party a derives its public value from a supplied key, party b   *)
(* from a supplied key or by X25519_keypair; then each computes the shared *)
(* key from its own private key and the other's public value, or party a   *)
(* is handed a peer value of small order.                                  *)
(***************************************************************************)
XKeys == { XKeyOf(k) : k \in 1..NumXKeys }

InitX ==
  /\ EdStart("off")
  /\ COff
  /\ x_rand = <<>>
  /\ cfg \in Configs
  /\ x_pc = "start"
  /\ x_key \in [Parties -> XKeys]
  /\ x_priv = x_key
  /\ x_pub = [p \in Parties |-> Unwritten(32)]
  /\ x_shared = [p \in Parties |-> Unwritten(32)]
  /\ x_ret = [p \in Parties |-> -1]
  /\ x_peer = [p \in Parties |-> <<>>]
  /\ x_last = <<>>
  /\ aborted = FALSE

\* x_pc before and after party p's call of kind op ("public", "shared").
Before(p, op) ==
  IF op = "public" THEN (IF p = "a" THEN "start" ELSE "a_public")
  ELSE (IF p = "a" THEN "b_public" ELSE "a_shared")

After(p, op) ==
  IF op = "public" THEN (IF p = "a" THEN "a_public" ELSE "b_public")
  ELSE (IF p = "a" THEN "a_shared" ELSE "done")

\* The state after a call for party p that left r behind, the key buffer
\* having held key when X25519_public_from_private was entered.
XPublished(p, key, r) ==
  /\ x_key' = [x_key EXCEPT ![p] = key]
  /\ x_priv' = [x_priv EXCEPT ![p] = r.private_key]
  /\ x_pub' = [x_pub EXCEPT ![p] = r.out]
  /\ x_last' = r
  /\ aborted' = r.aborted
  /\ x_pc' = IF r.aborted THEN "aborted" ELSE After(p, "public")
  /\ UNCHANGED << ed_vars, c_vars, cfg, x_shared, x_ret, x_peer >>

\* Party p calls X25519_public_from_private on its key.
XPublicFromPrivate(p) ==
  /\ x_pc = Before(p, "public")
  /\ XPublished(p, x_priv[p],
                X25519_public_from_private(cfg, x_pub[p], x_priv[p]))
  /\ UNCHANGED x_rand

\* Party b calls X25519_keypair; RAND_bytes writes rand.
XKeypair(rand) ==
  /\ x_pc = Before("b", "public")
  /\ XPublished("b", KeypairUnclamp(rand),
                X25519_keypair(cfg, x_pub["b"], rand))
  /\ x_rand' = rand

\* The state after party p's call of X25519 on peer left r behind.
XAgreed(p, peer, next, r) ==
  /\ x_priv' = [x_priv EXCEPT ![p] = r.private_key]
  /\ x_shared' = [x_shared EXCEPT ![p] = r.out]
  /\ x_ret' = [x_ret EXCEPT ![p] = r.ret]
  /\ x_peer' = [x_peer EXCEPT ![p] = peer]
  /\ x_last' = r
  /\ aborted' = r.aborted
  /\ x_pc' = IF r.aborted THEN "aborted" ELSE next
  /\ UNCHANGED << ed_vars, c_vars, cfg, x_key, x_pub, x_rand >>

\* Party p calls X25519 with the other party's public value.
XShared(p) ==
  /\ x_pc = Before(p, "shared")
  /\ XAgreed(p, x_pub[Other(p)], After(p, "shared"),
             X25519(cfg, x_shared[p], x_priv[p], x_pub[Other(p)]))

\* Party a calls X25519 with a peer value of small order.
XDegenerate(u) ==
  /\ x_pc = Before("a", "shared")
  /\ XAgreed("a", u, "degenerate",
             X25519(cfg, x_shared["a"], x_priv["a"], u))

NextX ==
  \/ \E p \in Parties : XPublicFromPrivate(p)
  \/ \E k \in 1..NumXRand : XKeypair(RandOf(k))
  \/ \E p \in Parties : XShared(p)
  \/ \E u \in DegeneratePeers : XDegenerate(u)

SpecX == InitX /\ [][NextX]_vars

(***************************************************************************)
(* Key generation with a random source that may run short.  RAND_bytes is  *)
(* not part of curve25519.c: it either writes all n bytes or ends the      *)
(* process; ED25519_keypair (line 258) and X25519_keypair (line 375) call  *)
(* it and look at no result.                                               *)
(***************************************************************************)
\* RAND_bytes that returns with the buffer partly filled.
RAND_bytesReturnsShort(buf, n, draw) ==
  [ aborted |-> FALSE,
    buf |-> Memcpy(buf, 0, draw, IF Len(draw) < n THEN Len(draw) ELSE n) ]

\* RAND_bytes(buf, n), with draw the bytes the source has to give: with
\* fewer than n the process aborts, the bytes that were there written.
RAND_bytes(buf, n, draw) ==
  [ aborted |-> Len(draw) < n,
    buf |-> Memcpy(buf, 0, draw, IF Len(draw) < n THEN Len(draw) ELSE n) ]

\* What the source may give: 32 bytes, or, running short, 0, 1 or 31.
FullDraws == { RandOf(k) : k \in 1..NumXRand }
Draws == FullDraws \cup { SubSeq(RandOf(2), 1, n) : n \in {0, 1, 31} }

InitKeygen ==
  /\ EdStart("start")
  /\ COff
  /\ cfg \in Configs
  /\ x_pc = Before("b", "public")
  /\ x_key = [p \in Parties |-> XKeyOf(1)]
  /\ x_priv = [p \in Parties |-> Unwritten(32)]
  /\ x_pub = [p \in Parties |-> Unwritten(32)]
  /\ x_shared = [p \in Parties |-> Unwritten(32)]
  /\ x_ret = [p \in Parties |-> -1]
  /\ x_peer = [p \in Parties |-> <<>>]
  /\ x_last = <<>>
  /\ x_rand = <<>>
  /\ aborted = FALSE

\* ED25519_keypair after RAND_bytes left rb behind (lines 258-260).
KgEdDrawn(rb) ==
  IF rb.aborted
    THEN /\ aborted' = TRUE
         /\ ed_pc' = "aborted"
         /\ UNCHANGED << ed_seed, ed_public, ed_private, ed_message, ed_sig,
                         ed_signed, ed_pk, ed_ret, ed_locals, cfg, x_pc,
                         x_key, x_priv, x_pub, x_shared, x_ret, x_peer,
                         x_last, x_rand, c_vars >>
    ELSE EdKeyed(ED25519_keypair(ed_private, rb.buf), rb.buf)

\* The caller calls ED25519_keypair; the source has draw to give.
KgEdKeypair(draw) ==
  /\ ed_pc = "start"
  /\ KgEdDrawn(RAND_bytes(Unwritten(ED25519_SEED_LEN), ED25519_SEED_LEN, draw))

\* X25519_keypair after RAND_bytes left rb behind (lines 375-394).
KgXDrawn(rb) ==
  IF rb.aborted
    THEN /\ aborted' = TRUE
         /\ x_pc' = "aborted"
         /\ x_priv' = [x_priv EXCEPT !["b"] = rb.buf]
         /\ UNCHANGED << ed_vars, c_vars, cfg, x_key, x_pub, x_shared, x_ret,
                         x_peer, x_last, x_rand >>
    ELSE /\ XPublished("b", KeypairUnclamp(rb.buf),
                       X25519_keypair(cfg, x_pub["b"], rb.buf))
         /\ x_rand' = rb.buf

\* Party b calls X25519_keypair; the source has draw to give.
KgXKeypair(draw) ==
  /\ x_pc = Before("b", "public")
  /\ KgXDrawn(RAND_bytes(x_priv["b"], 32, draw))

\* Nothing runs once the process has aborted.
NextKeygen ==
  /\ ~aborted
  /\ \/ \E draw \in Draws : KgEdKeypair(draw)
     \/ \E draw \in Draws : KgXKeypair(draw)

SpecKeygen == InitKeygen /\ [][NextKeygen]_vars

(***************************************************************************)
(* The two clampings of a digest: a 64-byte digest is drawn, and the       *)
(* clamping of ED25519_sign and that of ED25519_keypair_from_seed are      *)
(* each applied to it.                                                     *)
(***************************************************************************)
NumDigestFill == 2

\* Digests with every value of byte 31, the ends of the range of byte 0,
\* and other bytes of a pattern.
Digests ==
  { AsSeq([i \in 1..SHA512_DIGEST_LENGTH |->
             IF i = 1 THEN b0 ELSE IF i = 32 THEN b31
             ELSE (k * 41 + i * 13) % 256]) :
      b0 \in {0, 7, 248, 255}, b31 \in Byte, k \in 1..NumDigestFill }

InitClamp ==
  /\ EdStart("clamp")
  /\ XOff
  /\ COff

\* A digest is drawn into az.
ClampDraw(digest) ==
  /\ ed_pc = "clamp"
  /\ ed_locals = <<>>
  /\ ed_locals' = [digest |-> digest, sign |-> <<>>, keypair |-> <<>>]
  /\ UNCHANGED << ed_pc, ed_seed, ed_public, ed_private, ed_message, ed_sig,
                  ed_signed, ed_pk, ed_ret, x_vars, c_vars >>

\* Lines 273-275 are applied to the digest.
ClampAsSign ==
  /\ ed_pc = "clamp"
  /\ ed_locals # <<>>
  /\ ed_locals.sign = <<>>
  /\ ed_locals' = [ed_locals EXCEPT !.sign = SignClamp(ed_locals.digest)]
  /\ UNCHANGED << ed_pc, ed_seed, ed_public, ed_private, ed_message, ed_sig,
                  ed_signed, ed_pk, ed_ret, x_vars, c_vars >>

\* Lines 244-246 are applied to the digest.
ClampAsKeypair ==
  /\ ed_pc = "clamp"
  /\ ed_locals # <<>>
  /\ ed_locals.keypair = <<>>
  /\ ed_locals' = [ed_locals EXCEPT !.keypair = KeypairClamp(ed_locals.digest)]
  /\ UNCHANGED << ed_pc, ed_seed, ed_public, ed_private, ed_message, ed_sig,
                  ed_signed, ed_pk, ed_ret, x_vars, c_vars >>

NextClamp ==
  \/ \E digest \in Digests : ClampDraw(digest)
  \/ ClampAsSign
  \/ ClampAsKeypair

SpecClamp == InitClamp /\ [][NextClamp]_vars

(***************************************************************************)
(* x509v3_cache_extensions: concurrent calls on one certificate.  The      *)
(* certificate is described by what the X.509 helpers return for it; the   *)
(* flags of ex_flags and the bits of the usage fields are sets of names.   *)
(***************************************************************************)
NumThreads == 2

\* A certificate with no extensions, for which every helper succeeds.  j is
\* what X509_get_ext_d2i reports: the extension found and decoded, absent
\* (j == -1), or present but not usable (NULL with j != -1).
PlainCert ==
  [digest_ok |-> TRUE, version1 |-> FALSE,
   bcons |-> [j |-> "absent", ca |-> FALSE, pathlen_type |-> "absent",
              pathlen |-> 0],
   kusage |-> [j |-> "absent", data |-> <<>>],
   extusage |-> [j |-> "absent", nids |-> <<>>],
   nscert |-> [j |-> "absent", data |-> <<>>],
   skid |-> "absent", akid |-> "absent",
   self_issued |-> FALSE, akid_ok |-> FALSE,
   altname |-> "absent", nc |-> "absent",
   crldp_ok |-> TRUE, critical_unsupported |-> FALSE]

\* Certificates that take each branch of the body: one helper failing or
\* one extension in each of its forms, and the self-issued certificates
\* with each form of the key usage.
Certs ==
  {PlainCert, [PlainCert EXCEPT !.digest_ok = FALSE],
   [PlainCert EXCEPT !.version1 = TRUE],
   [PlainCert EXCEPT !.crldp_ok = FALSE],
   [PlainCert EXCEPT !.critical_unsupported = TRUE]}
    \cup { [PlainCert EXCEPT !.bcons = [j |-> j, ca |-> ca,
                                        pathlen_type |-> type, pathlen |-> 3]] :
             j \in {"found", "bad"}, ca \in BOOLEAN,
             type \in {"absent", "int", "neg", "overflow"} }
    \cup { [PlainCert EXCEPT !.self_issued = si, !.akid_ok = ok,
                             !.version1 = v1,
                             !.kusage = [j |-> j, data |-> d]] :
             si \in BOOLEAN, ok \in BOOLEAN, v1 \in BOOLEAN,
             j \in {"found", "bad", "absent"},
             d \in { <<>>, << {"KU_KEY_CERT_SIGN", "KU_CRL_SIGN"} >>,
                     << {"KU_DIGITAL_SIGNATURE"}, {"KU_DECIPHER_ONLY"} >> } }
    \cup { [PlainCert EXCEPT !.extusage = [j |-> j, nids |-> nids]] :
             j \in {"found", "bad"},
             nids \in { << "NID_server_auth", "NID_client_auth" >>,
                        << "NID_ms_sgc", "NID_ns_sgc", "NID_undef" >>,
                        << "NID_email_protect", "NID_code_sign",
                           "NID_OCSP_sign", "NID_time_stamp", "NID_dvcs",
                           "NID_anyExtendedKeyUsage" >> } }
    \cup { [PlainCert EXCEPT !.nscert = [j |-> j, data |-> d]] :
             j \in {"found", "bad"}, d \in { <<>>, << {"NS_SSL_CA"}, {} >> } }
    \cup { [PlainCert EXCEPT !.skid = j, !.akid = k] :
             j, k \in {"found", "bad", "absent"} }
    \cup { [PlainCert EXCEPT !.altname = j, !.nc = k] :
             j, k \in {"found", "bad", "absent"} }

\* CRYPTO_MUTEX: a lock held by one writer or by any number of readers.
CRYPTO_MUTEX_lock_read(t) ==
  /\ lock.writer = 0
  /\ lock' = [lock EXCEPT !.readers = @ \cup {t}]

CRYPTO_MUTEX_unlock_read(t) == lock' = [lock EXCEPT !.readers = @ \ {t}]

CRYPTO_MUTEX_lock_write(t) ==
  /\ lock.writer = 0
  /\ lock.readers = {}
  /\ lock' = [lock EXCEPT !.writer = t]

CRYPTO_MUTEX_unlock_write(t) == lock' = [lock EXCEPT !.writer = 0]

\* The test of line 251 always failing.
RecheckIsSetNever(flags) == FALSE

\* Line 251: x->ex_flags & EXFLAG_SET.
RecheckIsSet(flags) == "EXFLAG_SET" \in flags

\* Lines 264-287: the flags of the basic constraints.
BasicConstraintsFlags(bs) ==
  IF bs.j = "found"
  THEN (IF bs.ca THEN {"EXFLAG_CA"} ELSE {})
         \cup (IF /\ bs.pathlen_type # "absent"
                  /\ (bs.pathlen_type = "neg" \/ ~bs.ca)
               THEN {"EXFLAG_INVALID"} ELSE {})
         \cup {"EXFLAG_BCONS"}
  ELSE IF bs.j # "absent" THEN {"EXFLAG_INVALID"} ELSE {}

\* Lines 268-282: ex_pathlen; ASN1_INTEGER_get gives -1 on overflow.
BasicConstraintsPathlen(bs, old) ==
  IF bs.j # "found" THEN old
  ELSE IF bs.pathlen_type = "absent" THEN -1
  ELSE IF bs.pathlen_type = "neg" \/ ~bs.ca THEN 0
  ELSE IF bs.pathlen_type = "overflow" THEN -1
  ELSE bs.pathlen

\* Lines 289-302, 304-349, 351-361: the extension found gives its flags, and
\* lines 362-369, 379-386 none; NULL with j != -1 gives EXFLAG_INVALID.
ExtensionFlags(j, flags) ==
  IF j = "found" THEN flags
  ELSE IF j # "absent" THEN {"EXFLAG_INVALID"} ELSE {}

\* Lines 290-297: data[0] | data[1] << 8, or 0 when the string is empty.
KeyUsageBits(usage, old) ==
  IF usage.j # "found" THEN old
  ELSE IF Len(usage.data) > 0
       THEN usage.data[1]
              \cup (IF Len(usage.data) > 1 THEN usage.data[2] ELSE {})
       ELSE {}

\* Lines 307-344: the bit of one extended key usage.
XkuOfNid(nid) ==
  CASE nid = "NID_server_auth" -> {"XKU_SSL_SERVER"}
    [] nid = "NID_client_auth" -> {"XKU_SSL_CLIENT"}
    [] nid = "NID_email_protect" -> {"XKU_SMIME"}
    [] nid = "NID_code_sign" -> {"XKU_CODE_SIGN"}
    [] nid \in {"NID_ms_sgc", "NID_ns_sgc"} -> {"XKU_SGC"}
    [] nid = "NID_OCSP_sign" -> {"XKU_OCSP_SIGN"}
    [] nid = "NID_time_stamp" -> {"XKU_TIMESTAMP"}
    [] nid = "NID_dvcs" -> {"XKU_DVCS"}
    [] nid = "NID_anyExtendedKeyUsage" -> {"XKU_ANYEKU"}
    [] OTHER -> {}

\* Lines 72-73: ku_reject(x, usage).
ku_reject(flags, ex_kusage, usage) ==
  "EXFLAG_KUSAGE" \in flags /\ usage \notin ex_kusage

\* Lines 371-378: self issued, and self signed.
SelfIssuedFlags(x, flags, ex_kusage) ==
  IF x.self_issued
  THEN {"EXFLAG_SI"}
         \cup (IF x.akid_ok /\ ~ku_reject(flags, ex_kusage, "KU_KEY_CERT_SIGN")
               THEN {"EXFLAG_SS"} ELSE {})
  ELSE {}

\* A certificate on which the function has not run, and the calls about to
\* be made on it.
InitCache ==
  /\ EdStart("off")
  /\ XOff
  /\ cert \in Certs
  /\ ex_flags = {}
  /\ ex_cache = [cert_hash |-> FALSE, ex_pathlen |-> -1, ex_kusage |-> {},
                 ex_xkusage |-> {}, ex_nscert |-> {}, skid |-> FALSE,
                 akid |-> FALSE, altname |-> FALSE, nc |-> FALSE,
                 sig_info |-> FALSE]
  /\ lock = [writer |-> 0, readers |-> {}]
  /\ c_pc = [t \in 1..NumThreads |-> "call"]
  /\ c_is_set = [t \in 1..NumThreads |-> FALSE]
  /\ c_ret = [t \in 1..NumThreads |-> <<>>]
  /\ c_path = [t \in 1..NumThreads |-> "none"]
  /\ c_runs = 0

\* Thread t goes from one line to another and nothing but its local is_set
\* changes.
CacheGoes(t, from, to, is_set) ==
  /\ c_pc[t] = from
  /\ c_pc' = [c_pc EXCEPT ![t] = to]
  /\ c_is_set' = [c_is_set EXCEPT ![t] = is_set]
  /\ UNCHANGED << ed_vars, x_vars, cert, ex_flags, ex_cache, lock, c_ret,
                  c_path, c_runs >>

\* Thread t has taken or released the lock.
CacheLocks(t, from, to) ==
  /\ c_pc[t] = from
  /\ c_pc' = [c_pc EXCEPT ![t] = to]
  /\ UNCHANGED << ed_vars, x_vars, cert, ex_flags, ex_cache, c_is_set, c_ret,
                  c_path, c_runs >>

\* Thread t, in the body, ORs flags into ex_flags and writes cached fields.
CacheWrites(t, from, to, flags, cache) ==
  /\ c_pc[t] = from
  /\ c_pc' = [c_pc EXCEPT ![t] = to]
  /\ ex_flags' = ex_flags \cup flags
  /\ ex_cache' = cache
  /\ UNCHANGED << ed_vars, x_vars, cert, lock, c_is_set, c_ret, c_path,
                  c_runs >>

\* Lines 247, 253, 409: thread t returns (x->ex_flags & EXFLAG_INVALID) == 0.
CacheReturns(t, from, path) ==
  /\ c_pc[t] = from
  /\ c_pc' = [c_pc EXCEPT ![t] = "done"]
  /\ c_ret' = [c_ret EXCEPT
                 ![t] = << IF "EXFLAG_INVALID" \in ex_flags THEN 0 ELSE 1 >>]
  /\ c_path' = [c_path EXCEPT ![t] = path]
  /\ UNCHANGED << ed_vars, x_vars, cert, ex_flags, ex_cache, lock, c_is_set,
                  c_runs >>

\* One step of thread t in x509v3_cache_extensions.
x509v3_cache_extensions(t) ==
  \* Line 242.
  \/ /\ CRYPTO_MUTEX_lock_read(t)
     /\ CacheLocks(t, "call", "locked_read")
  \* Line 243.
  \/ CacheGoes(t, "locked_read", "unlock_read", "EXFLAG_SET" \in ex_flags)
  \* Line 244.
  \/ /\ CRYPTO_MUTEX_unlock_read(t)
     /\ CacheLocks(t, "unlock_read", "test")
  \* Line 246.
  \/ CacheGoes(t, "test", IF c_is_set[t] THEN "return_fast" ELSE "lock_write",
               c_is_set[t])
  \* Line 247.
  \/ CacheReturns(t, "return_fast", "fast")
  \* Line 250.
  \/ /\ CRYPTO_MUTEX_lock_write(t)
     /\ CacheLocks(t, "lock_write", "recheck")
  \* Line 251: leave when another call has filled the cache, else run the
  \* body.
  \/ /\ c_pc[t] = "recheck"
     /\ c_pc' = [c_pc EXCEPT ![t] = IF RecheckIsSet(ex_flags)
                                    THEN "unlock_early" ELSE "digest"]
     /\ c_runs' = IF RecheckIsSet(ex_flags) THEN c_runs ELSE c_runs + 1
     /\ UNCHANGED << ed_vars, x_vars, cert, ex_flags, ex_cache, lock,
                     c_is_set, c_ret, c_path >>
  \* Line 252.
  \/ /\ CRYPTO_MUTEX_unlock_write(t)
     /\ CacheLocks(t, "unlock_early", "return_recheck")
  \* Line 253.
  \/ CacheReturns(t, "return_recheck", "recheck")
  \* Lines 256-258.
  \/ CacheWrites(t, "digest", "version",
                 IF cert.digest_ok THEN {} ELSE {"EXFLAG_INVALID"},
                 [ex_cache EXCEPT !.cert_hash = cert.digest_ok])
  \* Lines 260-262.
  \/ CacheWrites(t, "version", "bcons",
                 IF cert.version1 THEN {"EXFLAG_V1"} ELSE {}, ex_cache)
  \* Lines 264-287.
  \/ CacheWrites(t, "bcons", "kusage", BasicConstraintsFlags(cert.bcons),
                 [ex_cache EXCEPT
                    !.ex_pathlen = BasicConstraintsPathlen(cert.bcons, @)])
  \* Lines 289-302.
  \/ CacheWrites(t, "kusage", "extusage",
                 ExtensionFlags(cert.kusage.j, {"EXFLAG_KUSAGE"}),
                 [ex_cache EXCEPT !.ex_kusage = KeyUsageBits(cert.kusage, @)])
  \* Lines 303-349: ex_xkusage starts from 0 and collects the bits.
  \/ CacheWrites(t, "extusage", "nscert",
                 ExtensionFlags(cert.extusage.j, {"EXFLAG_XKUSAGE"}),
                 [ex_cache EXCEPT
                    !.ex_xkusage =
                       UNION { XkuOfNid(cert.extusage.nids[i]) :
                                 i \in 1..Len(cert.extusage.nids) }])
  \* Lines 351-361: ex_nscert is data[0], or 0 when the string is empty.
  \/ CacheWrites(t, "nscert", "skid",
                 ExtensionFlags(cert.nscert.j, {"EXFLAG_NSCERT"}),
                 [ex_cache EXCEPT
                    !.ex_nscert =
                       IF cert.nscert.j # "found" THEN @
                       ELSE IF Len(cert.nscert.data) > 0
                            THEN cert.nscert.data[1] ELSE {}])
  \* Lines 362-365.
  \/ CacheWrites(t, "skid", "akid", ExtensionFlags(cert.skid, {}),
                 [ex_cache EXCEPT !.skid = cert.skid = "found"])
  \* Lines 366-369.
  \/ CacheWrites(t, "akid", "issuer", ExtensionFlags(cert.akid, {}),
                 [ex_cache EXCEPT !.akid = cert.akid = "found"])
  \* Lines 371-378.
  \/ CacheWrites(t, "issuer", "altname",
                 SelfIssuedFlags(cert, ex_flags, ex_cache.ex_kusage), ex_cache)
  \* Lines 379-382.
  \/ CacheWrites(t, "altname", "nc", ExtensionFlags(cert.altname, {}),
                 [ex_cache EXCEPT !.altname = cert.altname = "found"])
  \* Lines 383-386.
  \/ CacheWrites(t, "nc", "crldp", ExtensionFlags(cert.nc, {}),
                 [ex_cache EXCEPT !.nc = cert.nc = "found"])
  \* Lines 387-389.
  \/ CacheWrites(t, "crldp", "critical",
                 IF cert.crldp_ok THEN {} ELSE {"EXFLAG_INVALID"}, ex_cache)
  \* Lines 391-400.
  \/ CacheWrites(t, "critical", "sig_info",
                 IF cert.critical_unsupported THEN {"EXFLAG_CRITICAL"} ELSE {},
                 ex_cache)
  \* Line 404.
  \/ CacheWrites(t, "sig_info", "set", {},
                 [ex_cache EXCEPT !.sig_info = TRUE])
  \* Line 406.
  \/ CacheWrites(t, "set", "unlock_write", {"EXFLAG_SET"}, ex_cache)
  \* Line 408.
  \/ /\ CRYPTO_MUTEX_unlock_write(t)
     /\ CacheLocks(t, "unlock_write", "return")
  \* Line 409.
  \/ CacheReturns(t, "return", "body")

NextCache == \E t \in 1..NumThreads : x509v3_cache_extensions(t)

SpecCache == InitCache /\ [][NextCache]_vars

(***************************************************************************)
(* Properties of the Ed25519 operations, under SpecEd.                     *)
(***************************************************************************)
\* The verification has returned.
EdVerifyReturned == ed_pc = "verified" /\ ed_ret.op = "verify"

\* The caller altered neither the signature nor the public key.
EdUntampered == ed_sig = ed_signed /\ ed_pk = ed_public

\* C1: for every seed and every message, the empty one included, the
\* signature ED25519_sign makes with the private key of a key pair is
\* accepted by ED25519_verify under the public key of that pair: signing
\* returns 1 and verifying returns 1.
C1_SignThenVerify ==
  /\ ed_pc = "signed" => ed_ret.ret = 1
  /\ (EdVerifyReturned /\ EdUntampered) => ed_ret.ret = 1

\* A signature of the empty message has been verified as it was made.
C1_Witness ==
  /\ EdVerifyReturned /\ EdUntampered
  /\ ed_message = <<>>
  /\ ed_seed \in Seeds
  /\ ed_ret.ret = 1

\* C2: ED25519_verify returns 0 whenever the S half of the signature, read
\* as a little-endian integer, is at least L = 2^252 +
\* 27742317777372353535851937790883648493 (S = L and S + L for a valid S
\* included), and a signature gets past the word-by-word comparison with
\* kOrder exactly when S < L.
C2_RejectsLargeS ==
  EdVerifyReturned =>
    /\ GeqLE(SigS(ed_sig), OrderFromDecimal) => ed_ret.ret = 0
    /\ ed_ret.range_checked =>
         (ed_ret.exit = "compare" <=> ~GeqLE(SigS(ed_sig), OrderFromDecimal))

\* A valid signature with S replaced by S + L has reached the comparison
\* with kOrder and been rejected by it.
C2_Witness ==
  /\ EdVerifyReturned
  /\ ed_pk = ed_public
  /\ SigR(ed_sig) = SigR(ed_signed)
  /\ SigS(ed_sig) = Resize(AddLE(SigS(ed_signed), OrderFromDecimal), 32)
  /\ ed_ret.exit = "range"
  /\ ed_ret.ret = 0

\* C3: ED25519_verify returns 0 or 1 on every input and never aborts; when
\* one of the top three bits of signature[63] is set, or the public key
\* does not decode to a point, it returns 0 before the range check and
\* before any hashing; a failure of the range check or of the final
\* comparison gives 0 as well, so 1 is returned by the comparison alone.
C3_VerifyTotal ==
  EdVerifyReturned =>
    /\ ed_ret.ret \in {0, 1}
    /\ ~aborted
    /\ (At(ed_sig, 63) >= 32 \/ GeqLE(ed_pk, GroupOrderLE)) =>
         /\ ed_ret.ret = 0
         /\ ed_ret.exit = "malformed"
         /\ ~ed_ret.range_checked
         /\ ~ed_ret.hashed
    /\ ed_ret.exit = "range" => (ed_ret.ret = 0 /\ ~ed_ret.hashed)
    /\ ed_ret.ret = 1 => ed_ret.exit = "compare"

\* A signature whose last byte has a top bit set, under the signer's own
\* public key, has been rejected at the first test.
C3_Witness ==
  /\ EdVerifyReturned
  /\ At(ed_sig, 63) >= 32
  /\ ed_pk = ed_public
  /\ ed_ret.exit = "malformed"
  /\ ed_ret.ret = 0

\* The number of bytes in which the signature differs from the one made.
SigDiff == Cardinality({ i \in 1..64 : ed_sig[i] # ed_signed[i] })

\* C4: when exactly one of the 64 bytes of a signature made by
\* ED25519_sign is changed, ED25519_verify on the same message and public
\* key returns 0, and does not abort.
C4_OneByteChanged ==
  (EdVerifyReturned /\ ed_pk = ed_public /\ SigDiff = 1) =>
    (ed_ret.ret = 0 /\ ~aborted)

\* A signature with one byte of R changed has gone through the whole
\* verification and been rejected by the final comparison.
C4_Witness ==
  /\ EdVerifyReturned
  /\ ed_pk = ed_public
  /\ SigDiff = 1
  /\ SigS(ed_sig) = SigS(ed_signed)
  /\ ed_ret.exit = "compare"
  /\ ed_ret.ret = 0

\* The scalar ED25519_keypair_from_seed multiplies the base point by,
\* stated from the bytes of the hash: the low three bits of byte 0 and the
\* top bit of byte 31 clear, the next bit of byte 31 set.
ClampedHash(h) ==
  AsSeq([i \in 1..32 |-> IF i = 1 THEN h[1] - (h[1] % 8)
                         ELSE IF i = 32 THEN 64 + (h[32] % 64)
                         ELSE h[i]])

\* C9: after ED25519_keypair_from_seed, and after ED25519_keypair with the
\* seed it drew, bytes 0..31 of the private key are the seed, bytes 32..63
\* are out_public_key, and out_public_key encodes the base point times the
\* clamped first 32 bytes of SHA-512(seed).
C9_PrivateKeyLayout ==
  ed_pc \notin {"off", "start"} =>
    /\ SubSeq(ed_private, 1, 32) = ed_seed
    /\ SubSeq(ed_private, 33, 64) = ed_public
    /\ ed_public =
         ge_p3_tobytes(x25519_ge_scalarmult_base(ClampedHash(SHA512(ed_seed))))

\* ED25519_keypair has returned a key pair made from the bytes it drew.
C9_Witness ==
  /\ ed_pc = "keyed"
  /\ ed_seed = RandOf(1)
  /\ "seed" \in DOMAIN ed_locals
  /\ ed_private = ed_seed \o ed_public
  /\ ed_public # Unwritten(32)

(***************************************************************************)
(* Properties of the X25519 operations, under SpecX.                       *)
(***************************************************************************)
\* C5: for every pair of private keys a and b, X25519(a, public(b)) and
\* X25519(b, public(a)) write the same 32 bytes and both return 1, where
\* public is X25519_public_from_private.
C5_SharedKeyAgrees ==
  x_pc = "done" =>
    /\ x_shared["a"] = x_shared["b"]
    /\ x_ret["a"] = 1
    /\ x_ret["b"] = 1

\* Two parties with different keys have both computed the shared key.
C5_Witness ==
  /\ x_pc = "done"
  /\ x_key["a"] # x_key["b"]
  /\ x_pub["a"] # x_pub["b"]
  /\ x_shared["a"] = x_shared["b"]
  /\ x_ret = [p \in Parties |-> 1]

\* C6: X25519 returns 0 exactly when the 32 bytes it wrote are all zero;
\* it writes out_shared_key whether it returns 0 or 1; for the all-zero
\* peer value it returns 0 and writes 32 zero bytes.
C6_ZeroOutputIsFailure ==
  \A p \in Parties :
    x_ret[p] # -1 =>
      /\ x_ret[p] \in {0, 1}
      /\ x_ret[p] = 0 <=> x_shared[p] = Fill(32, 0)
      /\ x_shared[p] # Unwritten(32)
      /\ x_peer[p] = Fill(32, 0) =>
           (x_ret[p] = 0 /\ x_shared[p] = Fill(32, 0))

\* X25519 has been handed the all-zero peer value, has written 32 zero
\* bytes over the buffer and returned 0.
C6_Witness ==
  /\ x_pc = "degenerate"
  /\ x_peer["a"] = Fill(32, 0)
  /\ x_shared["a"] = Fill(32, 0)
  /\ x_ret["a"] = 0

\* Every private key and every peer value a call of SpecX can be made with.
XAllKeys == XKeys \cup { KeypairUnclamp(RandOf(k)) : k \in 1..NumXRand }
XAllPeers ==
  DegeneratePeers \cup { X25519Function(k, kMontBasePoint) : k \in XAllKeys }

\* The X25519 function of RFC 7748 on those inputs, with the flag that
\* goes with each output.
XReference ==
  { << k, u, X25519Function(k, u),
       IF X25519Function(k, u) = Fill(32, 0) THEN 0 ELSE 1 >> :
      k \in XAllKeys, u \in XAllPeers }

XReferencePublic ==
  { << k, X25519Function(k, kMontBasePoint) >> : k \in XAllKeys }

\* C8: for the same private key and peer value, X25519 and
\* X25519_public_from_private give the same output bytes and the same
\* flag on every configuration, whichever backend the dispatch selects;
\* where the dispatch clamps the scalar it clamps it in the one way.
C8_BackendsAgree ==
  /\ \A p \in Parties :
       /\ x_ret[p] # -1 =>
            << x_key[p], x_peer[p], x_shared[p], x_ret[p] >> \in XReference
       /\ x_pub[p] # Unwritten(32) =>
            << x_key[p], x_pub[p] >> \in XReferencePublic
  /\ (x_last # <<>> /\ x_last.private_key_internal_demask # <<>>) =>
       x_last.private_key_internal_demask =
         DecodeScalar25519(x_last.private_key)

\* Both shared keys have been computed on a configuration that dispatches
\* to the wide-multiplier backend.
C8_Witness ==
  /\ x_pc = "done"
  /\ x_last.backend = "curve25519_x25519_byte_alt"
  /\ x_ret = [p \in Parties |-> 1]

\* C10: X25519 and X25519_public_from_private leave the caller's private
\* key buffer as it was, on every dispatch path; the clamping is done on
\* the copy private_key_internal_demask.
C10_PrivateKeyUnchanged ==
  /\ x_priv = x_key
  /\ x_last # <<>> => x_last.private_key \in { x_key[p] : p \in Parties }

\* A call on the s2n-bignum path has clamped its copy of a key that is not
\* clamped, and the caller's buffer still holds the key.
C10_Witness ==
  /\ x_pc = "done"
  /\ x_last.private_key_internal_demask # <<>>
  /\ x_last.private_key_internal_demask # x_priv["b"]
  /\ x_priv["b"] = x_key["b"]

\* C11: after X25519_keypair the stored private key has the low three bits
\* of byte 0 set, bit 7 of byte 31 set and bit 6 of byte 31 clear, whatever
\* the random bytes were; every other bit is the random bit; and the public
\* value is X25519_public_from_private of the stored key.
C11_KeypairInverseClamp ==
  x_rand # <<>> =>
    /\ At(x_priv["b"], 0) % 8 = 7
    /\ At(x_priv["b"], 31) \div 64 = 2
    /\ At(x_priv["b"], 0) \div 8 = At(x_rand, 0) \div 8
    /\ At(x_priv["b"], 31) % 64 = At(x_rand, 31) % 64
    /\ \A i \in 1..30 : At(x_priv["b"], i) = At(x_rand, i)
    /\ x_pc = "b_public" =>
         x_pub["b"] =
           X25519_public_from_private(cfg, Unwritten(32), x_priv["b"]).out

\* X25519_keypair has drawn 32 zero bytes: the stored key has exactly the
\* four inverse-clamping bits set.
C11_Witness ==
  /\ x_pc = "b_public"
  /\ x_rand = Fill(32, 0)
  /\ x_priv["b"] = SetByte(SetByte(Fill(32, 0), 0, 7), 31, 128)
  /\ x_pub["b"] # Unwritten(32)

\* C12: when a function returns, every local buffer of it that held
\* private scalar material has been overwritten: the clamped copy of the
\* key in the X25519 dispatchers, az and the nonce in ED25519_sign, az in
\* ED25519_keypair_from_seed and the seed in ED25519_keypair.
C12_ScratchWiped ==
  /\ ed_pc = "keyed" =>
       /\ ed_locals.az = OPENSSL_cleanse(ed_locals.az, SHA512_DIGEST_LENGTH)
       /\ "seed" \in DOMAIN ed_locals =>
            ed_locals.seed = OPENSSL_cleanse(ed_locals.seed, ED25519_SEED_LEN)
  /\ ed_pc = "signed" =>
       /\ ed_locals.az = OPENSSL_cleanse(ed_locals.az, SHA512_DIGEST_LENGTH)
       /\ ed_locals.nonce =
            OPENSSL_cleanse(ed_locals.nonce, SHA512_DIGEST_LENGTH)
  /\ (x_last # <<>> /\ x_last.private_key_internal_demask # <<>>) =>
       x_last.private_key_internal_demask =
         OPENSSL_cleanse(x_last.private_key_internal_demask, 32)

BackendKind(fn) ==
  IF fn \in {"curve25519_x25519_byte", "curve25519_x25519base_byte"}
    THEN "no_alt"
  ELSE IF fn \in {"curve25519_x25519_byte_alt",
                  "curve25519_x25519base_byte_alt"}
    THEN "alt"
  ELSE IF fn \in {"x25519_scalar_mult_generic_nohw",
                  "x25519_public_from_private_nohw"}
    THEN "nohw"
  ELSE "none"

\* The backend the priority rule asks for on configuration c.
PreferredKind(c) ==
  IF c.arch = "x86_64" THEN (IF c.bmi2 /\ c.adx THEN "no_alt" ELSE "alt")
  ELSE IF c.arch = "aarch64" THEN (IF c.wide_mul THEN "alt" ELSE "no_alt")
  ELSE "none"

\* C14: on the hardware path a call uses one backend, chosen by priority:
\* on x86_64 the no-alt backend when BMI2 and ADX are both detected and the
\* alt backend otherwise, on aarch64 the alt backend when a wide
\* multiplier is detected and the no-alt backend otherwise; the dispatcher
\* of the shared key and the dispatcher of the public value choose alike.
C14_DispatchPriority ==
  /\ (x_last # <<>> /\ x25519_s2n_bignum_capable(cfg) = 1) =>
       BackendKind(x_last.backend) = PreferredKind(cfg)
  /\ \A c \in Configs :
       BackendKind(X25519Select(c)) = BackendKind(X25519BaseSelect(c))

\* On aarch64 with a wide multiplier both public values have come from
\* the alt backend.
C14_Witness ==
  /\ x_pc = "b_public"
  /\ cfg.arch = "aarch64"
  /\ cfg.wide_mul
  /\ x25519_s2n_bignum_capable(cfg) = 1
  /\ x_last.backend = "curve25519_x25519base_byte_alt"

\* C15: the portable implementation being compiled in, a call on a
\* configuration where neither the no-alt nor the alt predicate is true
\* goes to the portable nohw implementation and does not abort.
C15_PortableFallback ==
  (/\ x_last # <<>>
   /\ x25519_s2n_bignum_no_alt_capable(cfg) = 0
   /\ x25519_s2n_bignum_alt_capable(cfg) = 0) =>
    /\ ~aborted
    /\ BackendKind(x_last.backend) = "nohw"
    /\ x_last.out # Unwritten(32)

\* On an architecture with no s2n-bignum backend both parties have their
\* shared key from the portable implementation.
C15_Witness ==
  /\ x_pc = "done"
  /\ cfg.arch = "other"
  /\ x_last.backend = "x25519_scalar_mult_generic_nohw"
  /\ x_ret = [p \in Parties |-> 1]
  /\ ~aborted

\* C18: on no combination of architecture, operating system, build options
\* and CPU features does X25519 or X25519_public_from_private reach
\* abort(): the alt predicate is 1 on every x86_64, the no-alt predicate is
\* 1 on every aarch64, and where s2n-bignum is not capable the portable
\* path is taken, so neither the dispatchers nor the stubs are called.
C18_NoAbort ==
  /\ ~aborted
  /\ x_pc # "aborted"
  /\ cfg.arch = "x86_64" => x25519_s2n_bignum_alt_capable(cfg) = 1
  /\ cfg.arch = "aarch64" => x25519_s2n_bignum_no_alt_capable(cfg) = 1
  /\ x_last # <<>> =>
       /\ ~x_last.aborted
       /\ BackendKind(x_last.backend) # "none"
       /\ x25519_s2n_bignum_capable(cfg) = 0 =>
            BackendKind(x_last.backend) = "nohw"

\* On an x86_64 without BMI2 and ADX both shared keys have been computed,
\* by the alt backend.
C18_Witness ==
  /\ x_pc = "done"
  /\ cfg.arch = "x86_64"
  /\ ~cfg.bmi2
  /\ ~cfg.adx
  /\ x_last.backend = "curve25519_x25519_byte_alt"
  /\ ~aborted

(***************************************************************************)
(* Properties of signing, under SpecEd.                                    *)
(***************************************************************************)
\* C16: ED25519_sign returns 1 for every message length, zero included,
\* and every private key; it leaves the message and the private key as
\* they were; and a second call with the same message and key writes the
\* same 64 bytes as the first, whatever the output buffer held before.
C16_SignDeterministic ==
  /\ ed_pc \in {"signed", "resigned"} =>
       /\ ed_ret.ret = 1
       /\ Len(ed_sig) = 64
       /\ ed_message \in Messages
       /\ ed_private = ed_seed \o ed_public
  /\ ed_pc = "resigned" => ed_sig = ed_signed

\* The empty message has been signed twice with the same key, the second
\* time over the first signature, and the buffer holds the same bytes.
C16_Witness ==
  /\ ed_pc = "resigned"
  /\ ed_message = <<>>
  /\ ed_sig = ed_signed
  /\ ed_sig # Unwritten(64)
  /\ ed_ret.ret = 1

(***************************************************************************)
(* Properties of the clampings, under SpecClamp.                           *)
(***************************************************************************)
\* Both clampings have been applied to the digest drawn.
BothClamped ==
  /\ ed_pc = "clamp"
  /\ ed_locals # <<>>
  /\ ed_locals.sign # <<>>
  /\ ed_locals.keypair # <<>>

\* C17: for every 64-byte digest the clamping of ED25519_sign (byte 0 &=
\* 248, byte 31 &= 63, byte 31 |= 64) gives the same first 32 bytes as the
\* clamping of ED25519_keypair_from_seed (byte 0 &= 248, byte 31 &= 127,
\* byte 31 |= 64), so the scalar that signs is the scalar of the public
\* point.
C17_ClampingsAgree ==
  BothClamped =>
    /\ SubSeq(ed_locals.sign, 1, 32) = SubSeq(ed_locals.keypair, 1, 32)
    /\ At(ed_locals.sign, 0) % 8 = 0
    /\ At(ed_locals.sign, 31) \div 64 = 1

\* A digest with bits 6 and 7 of byte 31 set and the low bits of byte 0
\* set has been clamped both ways, to the same bytes.
C17_Witness ==
  /\ BothClamped
  /\ At(ed_locals.digest, 31) = 255
  /\ At(ed_locals.digest, 0) = 255
  /\ At(ed_locals.sign, 31) = 127
  /\ ed_locals.sign = ed_locals.keypair

(***************************************************************************)
(* Properties of x509v3_cache_extensions, under SpecCache.                 *)
(***************************************************************************)
\* The lines of the body before EXFLAG_SET is set, and the lines that read
\* ex_flags without holding the lock.
BodyLines ==
  {"digest", "version", "bcons", "kusage", "extusage", "nscert", "skid",
   "akid", "issuer", "altname", "nc", "crldp", "critical", "sig_info", "set"}

UnlockedReads == {"return_fast", "return_recheck", "return"}

CacheOrderly ==
  /\ c_pc # <<>>
  /\ c_runs <= 1
  /\ \A t \in 1..NumThreads :
       /\ c_pc[t] \in BodyLines =>
            lock.writer = t /\ "EXFLAG_SET" \notin ex_flags
       /\ c_pc[t] \in UnlockedReads => "EXFLAG_SET" \in ex_flags
       /\ c_pc[t] = "done" =>
            /\ "EXFLAG_SET" \in ex_flags
            /\ c_ret[t] = << IF "EXFLAG_INVALID" \in ex_flags THEN 0 ELSE 1 >>

\* C19: under any interleaving of calls on one certificate the body runs at
\* most once, only under the write lock with EXFLAG_SET clear; EXFLAG_SET is
\* set last and never cleared, ex_flags and the cached fields are not
\* written once it is set; every call returns 1 exactly when EXFLAG_INVALID
\* is not set, so all calls return the same value.
C19_CachedOnce ==
  /\ [] CacheOrderly
  /\ [][ "EXFLAG_SET" \in ex_flags =>
           ex_flags' = ex_flags /\ ex_cache' = ex_cache ]_vars

\* Every call has returned 0 on a certificate found invalid: one ran the
\* body and another found EXFLAG_SET once it held the write lock.
C19_Witness ==
  /\ c_pc # <<>>
  /\ \A t \in 1..NumThreads : c_pc[t] = "done" /\ c_ret[t] = << 0 >>
  /\ \E t, u \in 1..NumThreads : c_path[t] = "body" /\ c_path[u] = "recheck"
  /\ c_runs = 1
  /\ "EXFLAG_INVALID" \in ex_flags
====
